---- MODULE Spec2Model ----
(***************************************************************************)
(* The notification settings view (Notifications.tsx) as a state machine:  *)
(* the component's React state, the remote push-rule service it talks to,  *)
(* and the one asynchronous handler that can be running at a time.         *)
(***************************************************************************)
EXTENDS Integers, Sequences, FiniteSets, TLC

\* ------------------------------------------------------------------ bounds

\* How many user interactions (handler invocations) one run performs.
MaxOps == 2
\* How many distinct keywords the user can type.
MaxWords == 2
\* How many distinct words, and how many entries, the lists handed to
\* setKeywords hold when its diff is examined on its own.
MaxDiffWords == 3
MaxDiffLen == 2

\* ------------------------------------------------------------------ enums

\* enum Phase
Loading == "loading"
Ready == "ready"
Persisting == "persisting"
Error == "error"
Phase == {Loading, Ready, Persisting, Error}

\* enum VectorState (notifications module); Undefined is JavaScript's undefined
On == "on"
Loud == "loud"
Off == "off"
Undefined == "undefined"
VectorState == {Off, On, Loud}

\* enum RuleClass
RuleClass_Master == "master"
RuleClass_VectorGlobal == "vector_global"
RuleClass_VectorMentions == "vector_mentions"
RuleClass_VectorOther == "vector_other"
RuleClass_Other == "other"

KEYWORD_RULE_ID == "_keywords"
KEYWORD_RULE_CATEGORY == RuleClass_VectorMentions

\* Rule ids of the model: the master rule, a primary rule with a synced group,
\* a sibling that is also a rule of the settings grid, and a sibling that is not.
RuleId_Master == ".m.rule.master"
RuleId_Message == ".m.rule.message"
RuleId_EncryptedMessage == ".m.rule.encrypted"
RuleId_PollStart == ".m.rule.poll_start"
DefaultRuleIds == {RuleId_Master, RuleId_Message, RuleId_EncryptedMessage, RuleId_PollStart}

RULE_DISPLAY_ORDER == <<RuleId_Message, RuleId_EncryptedMessage>>

\* Push rule kinds
Override == "override"
Underride == "underride"
ContentSpecific == "content"

\* The action lists the settings use (StandardActions); NoActions stands for
\* an absent (undefined) action list, which is not the empty list.
ACTION_NOTIFY == <<"notify">>
ACTION_NOTIFY_DEFAULT_SOUND == <<"notify", "sound">>
ACTION_HIGHLIGHT_DEFAULT_SOUND == <<"notify", "highlight", "sound">>
ACTION_DONT_NOTIFY == <<"dont_notify">>
NoActions == <<"undefined">>

\* ------------------------------------------------------------------ sequences

\* Array.from(new Set(s)): the first occurrence of every element, in order
Dedupe(s) ==
    LET firsts == {i \in DOMAIN s : \A j \in 1..(i - 1) : s[j] # s[i]}
        keep(i) == i \in firsts
        idx == SelectSeq([i \in DOMAIN s |-> i], keep)
    IN [k \in DOMAIN idx |-> s[idx[k]]]

RECURSIVE Flatten(_)
\* the concatenation of a sequence of sequences
Flatten(ss) == IF ss = <<>> THEN <<>> ELSE Head(ss) \o Flatten(Tail(ss))

Range(s) == {s[i] : i \in DOMAIN s}

\* Array.prototype.indexOf, zero based, -1 when absent
IndexOf(s, x) ==
    IF \E i \in DOMAIN s : s[i] = x
    THEN (CHOOSE i \in DOMAIN s : s[i] = x /\ \A j \in 1..(i - 1) : s[j] # x) - 1
    ELSE -1

\* ------------------------------------------------------------------ rules

\* A push rule as the service returns it, annotated with its kind.
Rule(id, kind, enabled, actions, pattern) ==
    [rule_id |-> id, kind |-> kind, enabled |-> enabled, actions |-> actions, pattern |-> pattern]

KindOf(id) == IF id = RuleId_Master THEN Override ELSE Underride

\* categories table of refreshRules
categories(id) ==
    IF id = RuleId_Master THEN RuleClass_Master
    ELSE IF id \in {RuleId_Message, RuleId_EncryptedMessage} THEN RuleClass_VectorGlobal
    ELSE RuleClass_Other

\* VectorPushRulesDefinitions: per rule id, the actions of each vector state
\* (NoActions: the state is shown by a disabled rule) and the synced rule ids.
VectorPushRulesDefinitions(id) ==
    IF id = RuleId_Message
    THEN [vectorStateToActions |-> [on |-> ACTION_NOTIFY,
                                    loud |-> ACTION_NOTIFY_DEFAULT_SOUND,
                                    off |-> NoActions],
          syncedRuleIds |-> <<RuleId_PollStart, RuleId_EncryptedMessage>>]
    ELSE [vectorStateToActions |-> [on |-> ACTION_NOTIFY,
                                    loud |-> ACTION_HIGHLIGHT_DEFAULT_SOUND,
                                    off |-> ACTION_DONT_NOTIFY],
          syncedRuleIds |-> <<>>]

\* The states in the order ruleToVectorState tries them
PushRuleVectorState_states == <<On, Loud, Off>>

\* VectorPushRuleDefinition.ruleToVectorState: the first state whose actions
\* the rule carries (a state without actions is matched by a disabled rule);
\* undefined when the rule matches no state of the definition.
ruleToVectorState(definition, rule) ==
    LET matches(s) ==
            IF definition.vectorStateToActions[s] = NoActions
            THEN ~rule.enabled
            ELSE rule.enabled /\ rule.actions = definition.vectorStateToActions[s]
        hits == {i \in DOMAIN PushRuleVectorState_states : matches(PushRuleVectorState_states[i])}
    IN IF hits = {} THEN Undefined
       ELSE PushRuleVectorState_states[CHOOSE i \in hits : \A j \in hits : i <= j]

\* Vector notification states ordered by loudness in ascending order
OrderedVectorStates == <<Off, On, Loud>>

\* findInDefaultRules over the fetched default rules (a function from the
\* ids present to their rules); the empty sequence when there is none.
findInDefaultRules(ruleId, defaultRules) ==
    IF ruleId \in DOMAIN defaultRules THEN <<defaultRules[ruleId]>> ELSE <<>>

\* The rule ids VectorPushRulesDefinitions has an entry for
DefinedRuleIds == {RuleId_Message, RuleId_EncryptedMessage}

RECURSIVE maximumVectorStateFold(_, _, _, _)

\* A fold that takes the state of the last synced rule found, louder or not
maximumVectorStateFold_LastFound(defaultRules, definition, ids, maxVectorState) ==
    IF ids = <<>> THEN maxVectorState
    ELSE LET syncedRule == findInDefaultRules(Head(ids), defaultRules)
             next == IF syncedRule # <<>> THEN ruleToVectorState(definition, syncedRule[1])
                     ELSE maxVectorState
         IN maximumVectorStateFold(defaultRules, definition, Tail(ids), next)

\* A fold that reads a synced rule with the rule's own definition where it has one
maximumVectorStateFold_OwnDefinition(defaultRules, definition, ids, maxVectorState) ==
    IF ids = <<>> THEN maxVectorState
    ELSE LET syncedRule == findInDefaultRules(Head(ids), defaultRules)
             own == IF Head(ids) \in DefinedRuleIds THEN VectorPushRulesDefinitions(Head(ids))
                    ELSE definition
             next ==
                 IF maxVectorState = Loud THEN maxVectorState
                 ELSE IF syncedRule # <<>>
                         /\ IndexOf(OrderedVectorStates, ruleToVectorState(own, syncedRule[1]))
                              > IndexOf(OrderedVectorStates, maxVectorState)
                      THEN ruleToVectorState(own, syncedRule[1])
                      ELSE maxVectorState
         IN maximumVectorStateFold(defaultRules, definition, Tail(ids), next)

\* the reduce of maximumVectorState over the synced rule ids still to visit
maximumVectorStateFold(defaultRules, definition, ids, maxVectorState) ==
    IF ids = <<>> THEN maxVectorState
    ELSE LET syncedRule == findInDefaultRules(Head(ids), defaultRules)
             next ==
                 IF maxVectorState = Loud THEN maxVectorState
                 ELSE IF syncedRule # <<>>
                         /\ IndexOf(OrderedVectorStates, ruleToVectorState(definition, syncedRule[1]))
                              > IndexOf(OrderedVectorStates, maxVectorState)
                      THEN ruleToVectorState(definition, syncedRule[1])
                      ELSE maxVectorState
         IN maximumVectorStateFold(defaultRules, definition, Tail(ids), next)

\* A maximumVectorState that reports the rule's own state and leaves its
\* synced rules out
maximumVectorState_OwnOnly(defaultRules, rule, definition) ==
    IF Len(definition.syncedRuleIds) = 0 THEN Undefined
    ELSE ruleToVectorState(definition, rule)

\* maximumVectorState: the loudest state of a rule and its synced rules,
\* undefined when the definition has no synced rules
maximumVectorState(defaultRules, rule, definition) ==
    IF Len(definition.syncedRuleIds) = 0 THEN Undefined
    ELSE maximumVectorStateFold(defaultRules, definition, definition.syncedRuleIds,
                                ruleToVectorState(definition, rule))

\* ------------------------------------------------------------------ keywords

AllWords == <<"a", "b", "c", "d">>
\* What the user can type into the keyword composer, the empty string included
Words == {AllWords[i] : i \in 1..MaxWords} \cup {""}

\* PushRuleVectorState.actionsFor
actionsFor(pushRuleVectorState) ==
    IF pushRuleVectorState = On THEN ACTION_NOTIFY
    ELSE IF pushRuleVectorState = Loud THEN ACTION_HIGHLIGHT_DEFAULT_SOUND
    ELSE <<>>

\* PushRuleVectorState.contentRuleVectorStateKind: no tweak is On, the sound
\* and highlight tweaks together are Loud, anything else has no kind
contentRuleVectorStateKind(rule) ==
    LET tweaks == Cardinality({i \in DOMAIN rule.actions : rule.actions[i] \in {"sound", "highlight"}})
    IN IF tweaks = 0 THEN On ELSE IF tweaks = 2 THEN Loud ELSE Undefined

\* ContentRules.parseContentRules: the keyword rules shown as one aggregate row.
\* The loud rules win over the on rules, enabled ones over disabled ones.
parseContentRules(content) ==
    LET loud(r) == contentRuleVectorStateKind(r) = Loud /\ r.enabled
        loud_but_disabled(r) == contentRuleVectorStateKind(r) = Loud /\ ~r.enabled
        on(r) == contentRuleVectorStateKind(r) = On /\ r.enabled
        on_but_disabled(r) == contentRuleVectorStateKind(r) = On /\ ~r.enabled
    IN IF SelectSeq(content, loud) # <<>>
       THEN [vectorState |-> Loud, rules |-> SelectSeq(content, loud)]
       ELSE IF SelectSeq(content, loud_but_disabled) # <<>>
       THEN [vectorState |-> Off, rules |-> SelectSeq(content, loud_but_disabled)]
       ELSE IF SelectSeq(content, on) # <<>>
       THEN [vectorState |-> On, rules |-> SelectSeq(content, on)]
       ELSE IF SelectSeq(content, on_but_disabled) # <<>>
       THEN [vectorState |-> Off, rules |-> SelectSeq(content, on_but_disabled)]
       ELSE [vectorState |-> On, rules |-> <<>>]

\* arrayDiff: what b adds to a and what it removes from it, in list order
arrayDiff(a, b) ==
    LET notInA(x) == x \notin Range(a)
        notInB(x) == x \notin Range(b)
    IN [added |-> SelectSeq(b, notInA), removed |-> SelectSeq(a, notInB)]

\* ------------------------------------------------------------------ refresh

\* A row of the settings grid (IVectorPushRule); rule is <<>> for the keyword row
VectorPushRule(ruleId, rule, vectorState, syncedVectorState) ==
    [ruleId |-> ruleId, rule |-> rule, vectorState |-> vectorState,
     syncedVectorState |-> syncedVectorState]

\* The rows refreshRules prepares for one vector category: the category's
\* default rules in display order, and the keyword row in its category.
vectorPushRulesOf(category, defaultRules, keywordRuleInfo) ==
    LET inCategory(id) == id \in DOMAIN defaultRules /\ categories(id) = category
        ids == SelectSeq(RULE_DISPLAY_ORDER, inCategory)
        rows == [i \in DOMAIN ids |->
                    VectorPushRule(ids[i], <<defaultRules[ids[i]]>>,
                        ruleToVectorState(VectorPushRulesDefinitions(ids[i]), defaultRules[ids[i]]),
                        maximumVectorState(defaultRules, defaultRules[ids[i]],
                                           VectorPushRulesDefinitions(ids[i])))]
    IN IF category = KEYWORD_RULE_CATEGORY
       THEN rows \o <<VectorPushRule(KEYWORD_RULE_ID, <<>>, keywordRuleInfo.vectorState, Undefined)>>
       ELSE rows

VectorCategories == {RuleClass_VectorGlobal, RuleClass_VectorMentions, RuleClass_VectorOther}

\* refreshRules throws when the fetched rules hold no master rule
refreshRulesThrows(defaultRules) == RuleId_Master \notin DOMAIN defaultRules

\* A refreshRules that prepares the rows of two categories only
refreshRules_WithoutOther(defaultRules, content) ==
    [masterPushRule |-> <<defaultRules[RuleId_Master]>>,
     vectorKeywordRuleInfo |-> <<parseContentRules(content)>>,
     vectorPushRules |-> <<[category \in VectorCategories \ {RuleClass_VectorOther} |->
                              vectorPushRulesOf(category, defaultRules, parseContentRules(content))]>>]

\* The state refreshRules prepares from the fetched rule sets
refreshRules(defaultRules, content) ==
    [masterPushRule |-> <<defaultRules[RuleId_Master]>>,
     vectorKeywordRuleInfo |-> <<parseContentRules(content)>>,
     vectorPushRules |-> <<[category \in VectorCategories |->
                              vectorPushRulesOf(category, defaultRules, parseContentRules(content))]>>]

\* ------------------------------------------------------------------ state

VARIABLES
    srvRules,               \* the service's default rules: rule id -> rule, for the ids present
    srvContent,             \* the service's keyword (content) rules, in list order
    srvPushers,             \* the pushkeys of the service's email pushers
    phase,                  \* state.phase
    masterPushRule,         \* state.masterPushRule, <<>> while undefined
    vectorKeywordRuleInfo,  \* state.vectorKeywordRuleInfo, <<>> while undefined
    vectorPushRules,        \* state.vectorPushRules, <<>> while undefined
    pushers,                \* state.pushers, <<>> while undefined
    pc,                     \* where the running handler stands
    todo,                   \* the remote calls the running handler has still to issue
    handler,                \* the handler that is running or has failed
    target,                 \* the row and state of the running radio change
    pre,                    \* the service's rules when the running handler started
    calls,                  \* the remote calls the running handler has issued, with their outcome
    dialogs,                \* the save-error dialogs the running handler has opened
    ops,                    \* the handler invocations so far
    unreadRooms,            \* whether some room of the client has unread notifications
    sk_args,                \* setKeywords on its own: the lists it was handed
    sk_keywords,            \* setKeywords on its own: its local keywords
    sk_oldKeywords,         \* setKeywords on its own: its local oldKeywords
    sk_diff,                \* setKeywords on its own: its local diff
    sk_pc,                  \* setKeywords on its own: where it stands
    sk_vectorState,         \* setKeywords on its own: state.vectorKeywordRuleInfo.vectorState
    sk_todo,                \* setKeywords on its own: the remote calls it has still to issue
    sk_calls,               \* setKeywords on its own: the remote calls it has issued, with their outcome
    fd_rooms,               \* findDMForUser on its own: the client's rooms, room id -> room
    fd_roomIdsForUserId,    \* findDMForUser on its own: the DM map's rooms of the user
    fd_allRoomIds,          \* findDMForUser on its own: all the room ids of the DM map
    fd_result,              \* findDMForUser on its own: what it returned, <<>> for undefined
    fd_pc                   \* findDMForUser on its own: where it stands

vars == <<srvRules, srvContent, srvPushers, phase, masterPushRule, vectorKeywordRuleInfo,
          vectorPushRules, pushers, pc, todo, handler, target, pre, calls, dialogs, ops,
          unreadRooms, sk_args, sk_keywords, sk_oldKeywords, sk_diff, sk_pc,
          sk_vectorState, sk_todo, sk_calls,
          fd_rooms, fd_roomIdsForUserId, fd_allRoomIds, fd_result, fd_pc>>

\* The locals of a setKeywords that is examined on its own
setKeywordsLocals == <<sk_args, sk_keywords, sk_oldKeywords, sk_diff, sk_pc,
                       sk_vectorState, sk_todo, sk_calls>>

\* The inputs and locals of a findDMForUser that is examined on its own
findDMLocals == <<fd_rooms, fd_roomIdsForUserId, fd_allRoomIds, fd_result, fd_pc>>

\* What belongs to the units that are examined on their own, which the
\* settings view never touches
otherUnits == <<setKeywordsLocals, findDMLocals>>

server == <<srvRules, srvContent, srvPushers>>
ruleState == <<masterPushRule, vectorKeywordRuleInfo, vectorPushRules, pushers>>
batch == <<handler, target, pre>>

\* All that belongs to the settings view and its service
notificationsUnit == <<server, phase, ruleState, pc, todo, batch, calls, dialogs, ops, unreadRooms>>

\* The account's e-mail address (state.threepids)
Email == "user@example.org"

NoTarget == [ruleId |-> "", state |-> Undefined]
NoPre == [rules |-> <<>>, content |-> <<>>]

\* ------------------------------------------------------------------ remote calls

Call(op, kind, ruleId, enabled, actions) ==
    [op |-> op, kind |-> kind, rule_id |-> ruleId, enabled |-> enabled, actions |-> actions]

cli_setPushRuleEnabled(kind, ruleId, enabled) == Call("setPushRuleEnabled", kind, ruleId, enabled, <<>>)
cli_setPushRuleActions(kind, ruleId, actions) == Call("setPushRuleActions", kind, ruleId, FALSE, actions)
cli_addPushRule(kind, ruleId, actions) == Call("addPushRule", kind, ruleId, FALSE, actions)
cli_deletePushRule(kind, ruleId) == Call("deletePushRule", kind, ruleId, FALSE, <<>>)
cli_setPusher(pushkey, checked) == Call("setPusher", "email", pushkey, checked, <<>>)

\* What a call that succeeds does to the service's default rules
ApplyRules(rules, c) ==
    IF c.rule_id \notin DOMAIN rules THEN rules
    ELSE IF c.op = "setPushRuleEnabled" THEN [rules EXCEPT ![c.rule_id].enabled = c.enabled]
    ELSE IF c.op = "setPushRuleActions" THEN [rules EXCEPT ![c.rule_id].actions = c.actions]
    ELSE rules

\* What a call that succeeds does to the service's content rules; a new rule
\* is enabled and goes to the head of the list
ApplyContent(content, c) ==
    LET other(r) == r.rule_id # c.rule_id
    IN IF c.kind # ContentSpecific THEN content
       ELSE IF c.op = "setPushRuleEnabled"
       THEN [i \in DOMAIN content |->
                IF content[i].rule_id = c.rule_id THEN [content[i] EXCEPT !.enabled = c.enabled]
                ELSE content[i]]
       ELSE IF c.op = "setPushRuleActions"
       THEN [i \in DOMAIN content |->
                IF content[i].rule_id = c.rule_id THEN [content[i] EXCEPT !.actions = c.actions]
                ELSE content[i]]
       ELSE IF c.op = "addPushRule"
       THEN <<Rule(c.rule_id, ContentSpecific, TRUE, c.actions, c.rule_id)>> \o SelectSeq(content, other)
       ELSE IF c.op = "deletePushRule" THEN SelectSeq(content, other)
       ELSE content

\* What a call that succeeds does to the service's pushers
ApplyPushers(ps, c) ==
    IF c.op # "setPusher" THEN ps
    ELSE IF c.enabled THEN ps \cup {c.rule_id} ELSE ps \ {c.rule_id}

\* ------------------------------------------------------------------ handlers

\* A setPushRuleActions that also clears the actions of the rule it disables
setPushRuleActions_ClearsActions(ruleId, kind, actions) ==
    IF actions = NoActions
    THEN <<cli_setPushRuleActions(kind, ruleId, <<>>), cli_setPushRuleEnabled(kind, ruleId, FALSE)>>
    ELSE <<cli_setPushRuleActions(kind, ruleId, actions), cli_setPushRuleEnabled(kind, ruleId, TRUE)>>

\* A setPushRuleActions that enables the rule before it sets the actions
setPushRuleActions_EnablesFirst(ruleId, kind, actions) ==
    IF actions = NoActions
    THEN <<cli_setPushRuleEnabled(kind, ruleId, FALSE)>>
    ELSE <<cli_setPushRuleEnabled(kind, ruleId, TRUE), cli_setPushRuleActions(kind, ruleId, actions)>>

\* setPushRuleActions of the component: disable the rule when the state has
\* no actions, otherwise set the actions and then enable the rule
setPushRuleActions(ruleId, kind, actions) ==
    IF actions = NoActions
    THEN <<cli_setPushRuleEnabled(kind, ruleId, FALSE)>>
    ELSE <<cli_setPushRuleActions(kind, ruleId, actions), cli_setPushRuleEnabled(kind, ruleId, TRUE)>>

\* pushProcessor.getPushRuleAndKindById over the client's rules: <<>> when absent
getPushRuleAndKindById(ruleId, rules) ==
    IF ruleId \in DOMAIN rules THEN <<rules[ruleId]>> ELSE <<>>

\* The reverse of a sequence
Reverse(q) == [i \in DOMAIN q |-> q[Len(q) + 1 - i]]

\* An updateSyncedRules that walks the synced rules from the last to the first
updateSyncedRules_Reversed(syncedRuleIds, actions, rules) ==
    LET exists(id) == getPushRuleAndKindById(id, rules) # <<>>
        syncedRules == Reverse(SelectSeq(syncedRuleIds, exists))
    IN Flatten([i \in DOMAIN syncedRules |->
                   setPushRuleActions(rules[syncedRules[i]].rule_id, rules[syncedRules[i]].kind, actions)])

\* updateSyncedRules: the synced rules that exist, each updated in list order
updateSyncedRules(syncedRuleIds, actions, rules) ==
    LET exists(id) == getPushRuleAndKindById(id, rules) # <<>>
        syncedRules == SelectSeq(syncedRuleIds, exists)
    IN Flatten([i \in DOMAIN syncedRules |->
                   setPushRuleActions(rules[syncedRules[i]].rule_id, rules[syncedRules[i]].kind, actions)])

\* A keyword loop that sets the On actions whatever actions the rule has
keywordRuleCalls_OnAlwaysSetsActions(rule, checkedState, keywordVectorState) ==
    LET setActions ==
            IF checkedState = On THEN <<actionsFor(checkedState)>>
            ELSE IF checkedState = Loud /\ Len(rule.actions) # 3 THEN <<actionsFor(checkedState)>>
            ELSE <<>>
        setEnabled ==
            IF checkedState \in {On, Loud}
            THEN IF keywordVectorState = Off THEN <<TRUE>> ELSE <<>>
            ELSE <<FALSE>>
    IN [i \in DOMAIN setActions |-> cli_setPushRuleActions(rule.kind, rule.rule_id, setActions[i])]
       \o [i \in DOMAIN setEnabled |-> cli_setPushRuleEnabled(rule.kind, rule.rule_id, setEnabled[i])]

\* A keyword loop whose Loud branch tests the action count against 1, as the
\* On branch does
keywordRuleCalls_LoudTestsOne(rule, checkedState, keywordVectorState) ==
    LET setActions ==
            IF checkedState = On /\ Len(rule.actions) # 1 THEN <<actionsFor(checkedState)>>
            ELSE IF checkedState = Loud /\ Len(rule.actions) # 1 THEN <<actionsFor(checkedState)>>
            ELSE <<>>
        setEnabled ==
            IF checkedState \in {On, Loud}
            THEN IF keywordVectorState = Off THEN <<TRUE>> ELSE <<>>
            ELSE <<FALSE>>
    IN [i \in DOMAIN setActions |-> cli_setPushRuleActions(rule.kind, rule.rule_id, setActions[i])]
       \o [i \in DOMAIN setEnabled |-> cli_setPushRuleEnabled(rule.kind, rule.rule_id, setEnabled[i])]

\* A keyword loop whose Off branch also sets the actions of Off
keywordRuleCalls_OffSetsActions(rule, checkedState, keywordVectorState) ==
    LET setActions ==
            IF checkedState = On /\ Len(rule.actions) # 1 THEN <<actionsFor(checkedState)>>
            ELSE IF checkedState = Loud /\ Len(rule.actions) # 3 THEN <<actionsFor(checkedState)>>
            ELSE IF checkedState = Off THEN <<actionsFor(checkedState)>>
            ELSE <<>>
        setEnabled ==
            IF checkedState \in {On, Loud}
            THEN IF keywordVectorState = Off THEN <<TRUE>> ELSE <<>>
            ELSE <<FALSE>>
    IN [i \in DOMAIN setActions |-> cli_setPushRuleActions(rule.kind, rule.rule_id, setActions[i])]
       \o [i \in DOMAIN setEnabled |-> cli_setPushRuleEnabled(rule.kind, rule.rule_id, setEnabled[i])]

\* onRadioChecked on the keyword row: the calls for one keyword rule
keywordRuleCalls(rule, checkedState, keywordVectorState) ==
    LET setActions ==
            IF checkedState = On /\ Len(rule.actions) # 1 THEN <<actionsFor(checkedState)>>
            ELSE IF checkedState = Loud /\ Len(rule.actions) # 3 THEN <<actionsFor(checkedState)>>
            ELSE <<>>
        setEnabled ==
            IF checkedState \in {On, Loud}
            THEN IF keywordVectorState = Off THEN <<TRUE>> ELSE <<>>
            ELSE <<FALSE>>
    IN [i \in DOMAIN setActions |-> cli_setPushRuleActions(rule.kind, rule.rule_id, setActions[i])]
       \o [i \in DOMAIN setEnabled |-> cli_setPushRuleEnabled(rule.kind, rule.rule_id, setEnabled[i])]

\* onRadioChecked: the remote calls of the try block before the refresh
onRadioCheckedCalls(row, checkedState, keywordRuleInfo, rules) ==
    IF row.ruleId = KEYWORD_RULE_ID
    THEN Flatten([i \in DOMAIN keywordRuleInfo.rules |->
                     keywordRuleCalls(keywordRuleInfo.rules[i], checkedState, keywordRuleInfo.vectorState)])
    ELSE LET definition == VectorPushRulesDefinitions(row.ruleId)
             actions == definition.vectorStateToActions[checkedState]
         IN setPushRuleActions(row.rule[1].rule_id, row.rule[1].kind, actions)
            \o updateSyncedRules(definition.syncedRuleIds, actions, rules)

\* A clean-up that removes the empties and keeps the duplicates
normaliseKeywords_KeepsDuplicates(list) == LET nonEmpty(k) == k # "" IN SelectSeq(list, nonEmpty)

\* A clean-up that removes the duplicates and keeps the empties
normaliseKeywords_KeepsEmpties(list) == Dedupe(list)

\* setKeywords: de-duplicate and remove empties
normaliseKeywords(list) == LET nonEmpty(k) == k # "" IN SelectSeq(Dedupe(list), nonEmpty)

\* A setKeywords whose loop of additions comes before its loop of deletions
setKeywordsCalls_AddsFirst(keywords0, originalRules, keywordVectorState) ==
    LET keywords == normaliseKeywords(keywords0)
        oldKeywords == normaliseKeywords([i \in DOMAIN originalRules |-> originalRules[i].pattern])
        diff == arrayDiff(oldKeywords, keywords)
        deletesOf(word) ==
            LET hasWord(r) == r.pattern = word
                rs == SelectSeq(originalRules, hasWord)
            IN [j \in DOMAIN rs |-> cli_deletePushRule(rs[j].kind, rs[j].rule_id)]
        ruleVectorState ==
            IF keywordVectorState = Off
            THEN IF Len(originalRules) > 0 THEN contentRuleVectorStateKind(originalRules[1]) ELSE On
            ELSE keywordVectorState
        addsOf(word) ==
            <<cli_addPushRule(ContentSpecific, word, actionsFor(ruleVectorState))>>
            \o IF ruleVectorState = Off
               THEN <<cli_setPushRuleEnabled(ContentSpecific, word, FALSE)>>
               ELSE <<>>
    IN Flatten([i \in DOMAIN diff.added |-> addsOf(diff.added[i])])
       \o Flatten([i \in DOMAIN diff.removed |-> deletesOf(diff.removed[i])])

\* setKeywords: the remote calls of the try block before the refresh
setKeywordsCalls(keywords0, originalRules, keywordVectorState) ==
    LET keywords == normaliseKeywords(keywords0)
        oldKeywords == normaliseKeywords([i \in DOMAIN originalRules |-> originalRules[i].pattern])
        diff == arrayDiff(oldKeywords, keywords)
        deletesOf(word) ==
            LET hasWord(r) == r.pattern = word
                rs == SelectSeq(originalRules, hasWord)
            IN [j \in DOMAIN rs |-> cli_deletePushRule(rs[j].kind, rs[j].rule_id)]
        ruleVectorState ==
            IF keywordVectorState = Off
            THEN IF Len(originalRules) > 0 THEN contentRuleVectorStateKind(originalRules[1]) ELSE On
            ELSE keywordVectorState
        addsOf(word) ==
            <<cli_addPushRule(ContentSpecific, word, actionsFor(ruleVectorState))>>
            \o IF ruleVectorState = Off
               THEN <<cli_setPushRuleEnabled(ContentSpecific, word, FALSE)>>
               ELSE <<>>
    IN Flatten([i \in DOMAIN diff.removed |-> deletesOf(diff.removed[i])])
       \o Flatten([i \in DOMAIN diff.added |-> addsOf(diff.added[i])])

\* ------------------------------------------------------------------ render

\* isInhibited: the master rule, when enabled, inhibits all the other rules
isInhibited == masterPushRule # <<>> /\ masterPushRule[1].enabled

\* The value the account switch shows: checked when not inhibited
masterSwitchValue == ~isInhibited

\* renderTopSection: the master switch alone when inhibited, otherwise the
\* master, device and e-mail switches
renderTopSection == IF isInhibited THEN {"master"} ELSE {"master", "device", "email"}

\* The grid of a category, as an element of what is on screen
SectionOf(category) ==
    IF category = RuleClass_VectorGlobal THEN "section_global"
    ELSE IF category = RuleClass_VectorMentions THEN "section_mentions"
    ELSE "section_other"

\* A renderCategory that shows the grid of Other even when inhibited
renderCategory_OtherGridWhenInhibited(category) ==
    LET clearNotifsButton ==
            IF category = RuleClass_VectorOther /\ unreadRooms THEN {"clearNotifs"} ELSE {}
    IN IF category # RuleClass_VectorOther /\ isInhibited THEN {}
       ELSE {SectionOf(category), "radio"} \cup clearNotifsButton
            \cup (IF category = RuleClass_VectorMentions THEN {"keywords"} ELSE {})

\* renderCategory: the grid of the category with the radios of its rows, the
\* keyword composer under Mentions and the mark-all-as-read button under
\* Other; when inhibited nothing but, under Other, that button in a section
\* of its own
renderCategory(category) ==
    LET clearNotifsButton ==
            IF category = RuleClass_VectorOther /\ unreadRooms THEN {"clearNotifs"} ELSE {}
    IN IF category # RuleClass_VectorOther /\ isInhibited THEN {}
       ELSE IF category = RuleClass_VectorOther /\ isInhibited
       THEN IF clearNotifsButton # {} THEN {"floating_other"} \cup clearNotifsButton ELSE {}
       ELSE {SectionOf(category), "radio"} \cup clearNotifsButton
            \cup (IF category = RuleClass_VectorMentions THEN {"keywords"} ELSE {})

\* renderTargets: the notification targets, unless inhibited or there is none
renderTargets ==
    IF isInhibited THEN {}
    ELSE IF pushers[1] = {} THEN {}
    ELSE {"targets"}

\* A render without the error branch: once the rule state is there the
\* controls stay on screen
render_KeepsControlsOnError ==
    IF phase = Loading \/ masterPushRule = <<>> THEN {}
    ELSE renderTopSection \cup UNION {renderCategory(category) : category \in VectorCategories}
         \cup renderTargets

\* render: the controls on screen; a spinner while loading and a message on error
render ==
    IF phase = Loading THEN {}
    ELSE IF phase = Error THEN {}
    ELSE renderTopSection \cup UNION {renderCategory(category) : category \in VectorCategories}
         \cup renderTargets

\* Radios that stay enabled while a change is being persisted
controlDisabled_RadiosStayEnabled(control) == control \in {"master", "device", "email", "keywords"} /\ phase = Persisting

\* disabled: the switches, the radios and the keyword composer are disabled
\* while a change is being persisted; the mark-all-as-read button is not
controlDisabled(control) == control \in {"master", "device", "email", "radio", "keywords"} /\ phase = Persisting

\* A control the user can operate
Operable(control) == control \in render /\ ~controlDisabled(control)

\* A radio that looks at the synced state only
displayedState_SyncedOnly(r) == r.syncedVectorState

\* The checked radio of a row
displayedState(r) == IF r.syncedVectorState # Undefined THEN r.syncedVectorState ELSE r.vectorState

\* ------------------------------------------------------------------ initial state

\* setKeywords is not under examination on its own
setKeywordsUnused ==
    /\ sk_args = [keywords |-> <<>>, patterns |-> <<>>]
    /\ sk_keywords = <<>>
    /\ sk_oldKeywords = <<>>
    /\ sk_diff = [added |-> <<>>, removed |-> <<>>]
    /\ sk_pc = "unused"
    /\ sk_vectorState = On
    /\ sk_todo = <<>>
    /\ sk_calls = <<>>

\* findDMForUser is not under examination
findDMUnused ==
    /\ fd_rooms = <<>>
    /\ fd_roomIdsForUserId = <<>>
    /\ fd_allRoomIds = <<>>
    /\ fd_result = <<>>
    /\ fd_pc = "unused"

\* A table of default rules from a set of rules with distinct ids
AsTable(rs) == [id \in {r.rule_id : r \in rs} |-> CHOOSE r \in rs : r.rule_id = id]

\* The default rules an account may hold when the view opens
InitRules ==
    {AsTable(master \cup {message, encrypted} \cup poll) :
        master \in {{}, {Rule(RuleId_Master, Override, TRUE, ACTION_DONT_NOTIFY, "")},
                    {Rule(RuleId_Master, Override, FALSE, ACTION_DONT_NOTIFY, "")}},
        message \in {Rule(RuleId_Message, Underride, TRUE, ACTION_NOTIFY, ""),
                     Rule(RuleId_Message, Underride, FALSE, ACTION_NOTIFY_DEFAULT_SOUND, "")},
        encrypted \in {Rule(RuleId_EncryptedMessage, Underride, TRUE, ACTION_NOTIFY, ""),
                       Rule(RuleId_EncryptedMessage, Underride, TRUE, ACTION_HIGHLIGHT_DEFAULT_SOUND, "")},
        poll \in {{}, {Rule(RuleId_PollStart, Underride, TRUE, ACTION_NOTIFY_DEFAULT_SOUND, "")}}}

\* The keyword rules an account may hold when the view opens
InitContent ==
    {<<>>,
     <<Rule("a", ContentSpecific, TRUE, ACTION_NOTIFY, "a")>>,
     <<Rule("a", ContentSpecific, FALSE, ACTION_HIGHLIGHT_DEFAULT_SOUND, "a"),
       Rule("b", ContentSpecific, FALSE, ACTION_HIGHLIGHT_DEFAULT_SOUND, "b")>>}

Init ==
    /\ srvRules \in InitRules
    /\ srvContent \in InitContent
    /\ srvPushers = {}
    /\ phase = Loading
    /\ masterPushRule = <<>>
    /\ vectorKeywordRuleInfo = <<>>
    /\ vectorPushRules = <<>>
    /\ pushers = <<>>
    /\ pc = "constructed"
    /\ todo = <<>>
    /\ handler = "none"
    /\ target = NoTarget
    /\ pre = NoPre
    /\ calls = <<>>
    /\ dialogs = 0
    /\ ops = 0
    /\ unreadRooms \in BOOLEAN
    /\ setKeywordsUnused
    /\ findDMUnused

\* ------------------------------------------------------------------ actions

\* componentDidMount: the first refresh is started
componentDidMount ==
    /\ pc = "constructed"
    /\ pc' = "refreshing"
    /\ handler' = "mount"
    /\ UNCHANGED <<server, phase, ruleState, todo, target, pre, calls, dialogs, ops, unreadRooms, otherUnits>>

\* A handler that shows the spinner while it saves
persistingPhase_Loading(current) == Loading

\* A handler that leaves the phase as it finds it
persistingPhase_Unchanged(current) == current

\* The phase a mutating handler sets before its first remote call
persistingPhase(current) == Persisting

\* A showSaveError that opens nothing
showSaveError_Silent(shown) == shown

\* showSaveError: one more dialog
showSaveError(shown) == shown + 1

\* A catch inside the loop: the calls still to issue are kept
abortBatch_Continues(remaining) == remaining

\* A rejected call throws out of the try block: what was still to issue is dropped
abortBatch(remaining) == <<>>

\* The start of a mutating handler: the phase is set and the try block is entered
Begin(name, tgt, callList) ==
    /\ pc = "idle"
    /\ ops < MaxOps
    /\ phase' = persistingPhase(phase)
    /\ todo' = callList
    /\ pc' = "running"
    /\ handler' = name
    /\ target' = tgt
    /\ pre' = [rules |-> srvRules, content |-> srvContent]
    /\ calls' = <<>>
    /\ dialogs' = 0
    /\ ops' = ops + 1
    /\ UNCHANGED <<server, unreadRooms, otherUnits>>

\* A handler that enables the master rule when the switch is checked
onMasterRuleChangedCalls_EnablesWhenChecked(masterRule, checked) ==
    <<cli_setPushRuleEnabled(masterRule.kind, masterRule.rule_id, checked)>>

\* onMasterRuleChanged: the remote call of the try block before the refresh
onMasterRuleChangedCalls(masterRule, checked) ==
    <<cli_setPushRuleEnabled(masterRule.kind, masterRule.rule_id, ~checked)>>

\* onMasterRuleChanged(checked): the switch reports the opposite of what it shows
onMasterRuleChanged ==
    /\ Operable("master")
    /\ LET checked == ~masterSwitchValue
       IN Begin("master", NoTarget, onMasterRuleChangedCalls(masterPushRule[1], checked))
    /\ UNCHANGED ruleState

\* onEmailNotificationsChanged(email, checked)
onEmailNotificationsChanged ==
    /\ Operable("email")
    /\ LET checked == Email \notin pushers[1]
       IN Begin("email", NoTarget, <<cli_setPusher(Email, checked)>>)
    /\ UNCHANGED ruleState

\* onRadioChecked(rule, checkedState): a radio that is not checked is clicked
onRadioChecked ==
    /\ Operable("radio")
    /\ \E category \in VectorCategories :
         \E i \in DOMAIN vectorPushRules[1][category] :
           \E checkedState \in VectorState :
             LET row == vectorPushRules[1][category][i]
             IN /\ checkedState # displayedState(row)
                /\ Begin(IF row.ruleId = KEYWORD_RULE_ID THEN "keywords" ELSE "radio",
                         [ruleId |-> row.ruleId, state |-> checkedState],
                         onRadioCheckedCalls(row, checkedState, vectorKeywordRuleInfo[1], srvRules))
    /\ UNCHANGED ruleState

\* The rule onKeywordAdd puts into the state as a local echo: a pattern only
LocalEcho(keyword) == Rule("", "", FALSE, <<>>, keyword)

\* onKeywordAdd(keyword)
onKeywordAdd ==
    /\ Operable("keywords")
    /\ \E keyword \in Words :
         LET originalRules == vectorKeywordRuleInfo[1].rules
             echoed == Append(originalRules, LocalEcho(keyword))
         IN /\ vectorKeywordRuleInfo' = <<[vectorKeywordRuleInfo[1] EXCEPT !.rules = echoed]>>
            /\ Begin("keywordAdd", NoTarget,
                     setKeywordsCalls([i \in DOMAIN echoed |-> echoed[i].pattern], originalRules,
                                      vectorKeywordRuleInfo[1].vectorState))
    /\ UNCHANGED <<masterPushRule, vectorPushRules, pushers>>

\* onKeywordRemove(keyword): a tag that is shown is removed
onKeywordRemove ==
    /\ Operable("keywords")
    /\ \E k \in DOMAIN vectorKeywordRuleInfo[1].rules :
         LET originalRules == vectorKeywordRuleInfo[1].rules
             keyword == originalRules[k].pattern
             others(r) == r.pattern # keyword
             echoed == SelectSeq(originalRules, others)
         IN /\ vectorKeywordRuleInfo' = <<[vectorKeywordRuleInfo[1] EXCEPT !.rules = echoed]>>
            /\ Begin("keywordRemove", NoTarget,
                     setKeywordsCalls([i \in DOMAIN echoed |-> echoed[i].pattern], originalRules,
                                      vectorKeywordRuleInfo[1].vectorState))
    /\ UNCHANGED <<masterPushRule, vectorPushRules, pushers>>

\* The calls log with the outcome of its last call set
Settle(log, outcome) == [log EXCEPT ![Len(log)].outcome = outcome]

\* A call that is not awaited: the handler goes on to its next call while
\* this one is outstanding
awaitCall_FireAndForget(remaining) == IF remaining = <<>> THEN "awaiting" ELSE "running"

\* await: the handler is suspended until the call it has just issued settles
awaitCall(remaining) == "awaiting"

\* The handler issues its next remote call and awaits it
IssueCall ==
    /\ pc = "running"
    /\ todo # <<>>
    /\ calls' = Append(calls, [call |-> Head(todo), outcome |-> "pending"])
    /\ todo' = Tail(todo)
    /\ pc' = awaitCall(Tail(todo))
    /\ UNCHANGED <<server, phase, ruleState, batch, dialogs, ops, unreadRooms, otherUnits>>

\* The awaited call succeeds: the service has made the change
CallResolved ==
    /\ pc = "awaiting"
    /\ srvRules' = ApplyRules(srvRules, calls[Len(calls)].call)
    /\ srvContent' = ApplyContent(srvContent, calls[Len(calls)].call)
    /\ srvPushers' = ApplyPushers(srvPushers, calls[Len(calls)].call)
    /\ calls' = Settle(calls, "ok")
    /\ pc' = "running"
    /\ UNCHANGED <<phase, ruleState, todo, batch, dialogs, ops, unreadRooms, otherUnits>>

\* The awaited call rejects: the handler's catch block runs
CallRejected ==
    /\ pc = "awaiting"
    /\ calls' = Settle(calls, "rejected")
    /\ phase' = Error
    /\ dialogs' = showSaveError(dialogs)
    /\ todo' = abortBatch(todo)
    /\ pc' = IF abortBatch(todo) = <<>> THEN "idle" ELSE "running"
    /\ UNCHANGED <<server, ruleState, batch, ops, unreadRooms, otherUnits>>

\* A handler that declares the view ready once its calls are through, without
\* fetching the rules again
refreshFromServer_Skipped ==
    /\ pc = "running"
    /\ todo = <<>>
    /\ pc' = "idle"
    /\ phase' = Ready
    /\ UNCHANGED <<server, ruleState, todo, batch, calls, dialogs, ops, unreadRooms, otherUnits>>

\* refreshFromServer is called at the end of the try block: the fetches go out
refreshFromServer ==
    /\ pc = "running"
    /\ todo = <<>>
    /\ pc' = "refreshing"
    /\ UNCHANGED <<server, phase, ruleState, todo, batch, calls, dialogs, ops, unreadRooms, otherUnits>>

\* A refresh that swallows what refreshRules throws and declares the view ready
refreshFromServerResolved_ReadyOnThrow ==
    /\ pc = "refreshing"
    /\ pc' = "idle"
    /\ IF refreshRulesThrows(srvRules)
       THEN /\ phase' = Ready
            /\ UNCHANGED <<ruleState, batch, calls, dialogs>>
       ELSE /\ phase' = Ready
            /\ masterPushRule' = refreshRules(srvRules, srvContent).masterPushRule
            /\ vectorKeywordRuleInfo' = refreshRules(srvRules, srvContent).vectorKeywordRuleInfo
            /\ vectorPushRules' = refreshRules(srvRules, srvContent).vectorPushRules
            /\ pushers' = <<srvPushers>>
            /\ handler' = "none"
            /\ target' = NoTarget
            /\ pre' = NoPre
            /\ calls' = <<>>
            /\ dialogs' = 0
    /\ UNCHANGED <<server, todo, ops, unreadRooms, otherUnits>>

\* The fetches succeed: the state is rebuilt, unless refreshRules throws
refreshFromServerResolved ==
    /\ pc = "refreshing"
    /\ pc' = "idle"
    /\ IF refreshRulesThrows(srvRules)
       THEN /\ phase' = Error
            /\ UNCHANGED <<ruleState, batch, calls, dialogs>>
       ELSE /\ phase' = Ready
            /\ masterPushRule' = refreshRules(srvRules, srvContent).masterPushRule
            /\ vectorKeywordRuleInfo' = refreshRules(srvRules, srvContent).vectorKeywordRuleInfo
            /\ vectorPushRules' = refreshRules(srvRules, srvContent).vectorPushRules
            /\ pushers' = <<srvPushers>>
            /\ handler' = "none"
            /\ target' = NoTarget
            /\ pre' = NoPre
            /\ calls' = <<>>
            /\ dialogs' = 0
    /\ UNCHANGED <<server, todo, ops, unreadRooms, otherUnits>>

\* A fetch rejects: refreshFromServer's own catch block runs
refreshFromServerRejected ==
    /\ pc = "refreshing"
    /\ pc' = "idle"
    /\ phase' = Error
    /\ UNCHANGED <<server, ruleState, todo, batch, calls, dialogs, ops, unreadRooms, otherUnits>>

\* onClearNotificationsClicked: every room is marked as read. The button is
\* disabled only while its own request runs (clearingNotifications, reset in
\* the finally block), not while a change is being persisted.
onClearNotificationsClicked ==
    /\ "clearNotifs" \in render
    /\ unreadRooms' = FALSE
    /\ UNCHANGED <<server, phase, ruleState, pc, todo, batch, calls, dialogs, ops, otherUnits>>

Next ==
    \/ componentDidMount
    \/ onMasterRuleChanged
    \/ onEmailNotificationsChanged
    \/ onRadioChecked
    \/ onKeywordAdd
    \/ onKeywordRemove
    \/ onClearNotificationsClicked
    \/ IssueCall
    \/ CallResolved
    \/ CallRejected
    \/ refreshFromServer
    \/ refreshFromServerResolved
    \/ refreshFromServerRejected

Spec == Init /\ [][Next]_vars

\* ------------------------------------------------------------------ display state

\* The place of a state in OrderedVectorStates; undefined is below them all
Rank(s) == IndexOf(OrderedVectorStates, s)

\* The loudest state of a non-empty set of states
LoudestOf(S) == CHOOSE s \in S : \A t \in S : Rank(s) >= Rank(t)

\* The rows of the grid whose definition has a synced group
SyncedRows ==
    {r \in UNION {Range(vectorPushRules[1][category]) : category \in VectorCategories} :
        /\ r.ruleId \in DefinedRuleIds
        /\ Len(VectorPushRulesDefinitions(r.ruleId).syncedRuleIds) > 0}

\* The synced siblings of a row that the fetched rule table holds
ResolvableSiblings(r) ==
    Range(VectorPushRulesDefinitions(r.ruleId).syncedRuleIds) \cap DOMAIN srvRules

\* C1: when the view is ready, the displayed state of every rule with a synced
\* group is at least the rule's own state and at least the state of every
\* synced sibling found in the fetched rules, under Off < On < Loud.
C1_DisplayedAtLeastOwnAndSiblings ==
    phase = Ready =>
        \A r \in SyncedRows :
            /\ r.vectorState = ruleToVectorState(VectorPushRulesDefinitions(r.ruleId), srvRules[r.ruleId])
            /\ Rank(displayedState(r)) >= Rank(r.vectorState)
            /\ \A id \in ResolvableSiblings(r) :
                 Rank(displayedState(r)) >=
                     Rank(ruleToVectorState(VectorPushRulesDefinitions(r.ruleId), srvRules[id]))

\* C1 witness: a ready view shows a rule louder than the rule itself is,
\* because a synced sibling is louder
C1_Witness ==
    /\ phase = Ready
    /\ \E r \in SyncedRows :
         /\ r.vectorState = Off
         /\ displayedState(r) = Loud
         /\ ResolvableSiblings(r) # {}

\* The state a sibling has under its own definition, where it has one
OwnState(parent, id) ==
    ruleToVectorState(IF id \in DefinedRuleIds THEN VectorPushRulesDefinitions(id)
                      ELSE VectorPushRulesDefinitions(parent), srvRules[id])

\* C2 as stated: the displayed state of a rule with a synced group is the
\* loudest of the rule's state and of the states its resolvable siblings have
\* under their own definitions.
C2_SiblingsReadWithOwnDefinition ==
    phase = Ready =>
        \A r \in SyncedRows :
            displayedState(r) =
                LoudestOf({r.vectorState} \cup {OwnState(r.ruleId, id) : id \in ResolvableSiblings(r)})

\* C2 amended: the displayed state of a rule with a synced group is the loudest
\* of the rule's state and of the states its resolvable siblings have under the
\* parent's definition.
C2_SiblingsReadWithParentDefinition ==
    phase = Ready =>
        \A r \in SyncedRows :
            displayedState(r) =
                LoudestOf({r.vectorState} \cup
                          {ruleToVectorState(VectorPushRulesDefinitions(r.ruleId), srvRules[id]) :
                               id \in ResolvableSiblings(r)})

\* C2 witness: a ready view where a resolvable sibling reads differently under
\* its own definition and under the parent's
C2_Witness ==
    /\ phase = Ready
    /\ \E r \in SyncedRows :
         \E id \in ResolvableSiblings(r) :
            /\ OwnState(r.ruleId, id) = Loud
            /\ ruleToVectorState(VectorPushRulesDefinitions(r.ruleId), srvRules[id]) # Loud
            /\ displayedState(r) # Loud

\* ------------------------------------------------------------------ radio changes

\* The actions the running radio change applies
TargetActions == VectorPushRulesDefinitions(target.ruleId).vectorStateToActions[target.state]

\* The calls of the log, without their outcomes
Issued == [i \in DOMAIN calls |-> calls[i].call]

\* The calls of the log that concern one rule
IssuedFor(ruleId) == LET concerns(c) == c.rule_id = ruleId IN SelectSeq(Issued, concerns)

\* p is a prefix of q
IsPrefix(p, q) == Len(p) <= Len(q) /\ \A i \in DOMAIN p : p[i] = q[i]

\* C3: a radio change whose target state has no actions issues, for the rule
\* clicked, nothing but setPushRuleEnabled(rule, false): once that call has
\* succeeded the rule is disabled, and its stored actions are those it had
\* before the change.
C3_OffDisablesAndKeepsActions ==
    (handler = "radio" /\ TargetActions = NoActions) =>
        /\ IsPrefix(IssuedFor(target.ruleId),
                    <<cli_setPushRuleEnabled(KindOf(target.ruleId), target.ruleId, FALSE)>>)
        /\ srvRules[target.ruleId].actions = pre.rules[target.ruleId].actions
        /\ (Len(calls) >= 1 /\ calls[1].outcome = "ok") => ~srvRules[target.ruleId].enabled
        /\ pc = "refreshing" => Len(IssuedFor(target.ruleId)) = 1

\* C3 witness: an enabled rule has been switched off and the batch is through
C3_Witness ==
    /\ handler = "radio"
    /\ TargetActions = NoActions
    /\ pc = "refreshing"
    /\ pre.rules[target.ruleId].enabled
    /\ ~srvRules[target.ruleId].enabled

\* C4: a radio change whose target state has actions issues, for the rule
\* clicked, setPushRuleActions with those actions and then
\* setPushRuleEnabled(rule, true); the second goes out only after the first
\* has succeeded, and never after it was rejected.
C4_ActionsThenEnable ==
    (handler = "radio" /\ TargetActions # NoActions) =>
        /\ IsPrefix(IssuedFor(target.ruleId),
                    <<cli_setPushRuleActions(KindOf(target.ruleId), target.ruleId, TargetActions),
                      cli_setPushRuleEnabled(KindOf(target.ruleId), target.ruleId, TRUE)>>)
        /\ Len(calls) >= 2 => calls[1].outcome = "ok"
        /\ (Len(calls) >= 1 /\ calls[1].outcome = "rejected") => Len(calls) = 1 /\ pc = "idle"
        /\ pc = "refreshing" => Len(IssuedFor(target.ruleId)) = 2

\* C4 witness: the actions were set, then the rule was enabled
C4_Witness ==
    /\ handler = "radio"
    /\ TargetActions # NoActions
    /\ Len(calls) >= 2
    /\ calls[2].outcome = "ok"
    /\ srvRules[target.ruleId].actions = TargetActions
    /\ srvRules[target.ruleId].enabled

\* The rules a radio change on a rule has to update: the rule, then its
\* synced siblings that exist, in the order of syncedRuleIds
RulesToUpdate ==
    LET exists(id) == id \in DOMAIN pre.rules
    IN <<target.ruleId>> \o SelectSeq(VectorPushRulesDefinitions(target.ruleId).syncedRuleIds, exists)

\* The calls that bring one rule to the target state
CallsToApply(ruleId) ==
    IF TargetActions = NoActions
    THEN <<cli_setPushRuleEnabled(KindOf(ruleId), ruleId, FALSE)>>
    ELSE <<cli_setPushRuleActions(KindOf(ruleId), ruleId, TargetActions),
           cli_setPushRuleEnabled(KindOf(ruleId), ruleId, TRUE)>>

\* The rules whose calls have all succeeded
Synced == {id \in Range(RulesToUpdate) :
              /\ Len(IssuedFor(id)) = Len(CallsToApply(id))
              /\ \A i \in DOMAIN calls : calls[i].call.rule_id = id => calls[i].outcome = "ok"}

\* The rules no call of the batch has reached yet
Untouched == {id \in Range(RulesToUpdate) : IssuedFor(id) = <<>>}

\* C5: a radio change on a rule updates the rule first and then its synced
\* siblings in the order of syncedRuleIds, each by the same calls; a call that
\* rejects is the last call of the batch, the rules after it keep the state
\* they had, and the rules before it keep the state they were given.
C5_PrimaryThenSiblingsUntilFailure ==
    handler = "radio" =>
        /\ IsPrefix(Issued, Flatten([i \in DOMAIN RulesToUpdate |-> CallsToApply(RulesToUpdate[i])]))
        /\ \A i \in DOMAIN calls : i < Len(calls) => calls[i].outcome = "ok"
        /\ (calls # <<>> /\ calls[Len(calls)].outcome = "rejected") => pc = "idle" /\ todo = <<>>
        /\ pc = "refreshing" => Synced = Range(RulesToUpdate)
        /\ \A id \in Untouched : srvRules[id] = pre.rules[id]
        /\ \A id \in Synced :
             /\ srvRules[id].enabled = (TargetActions # NoActions)
             /\ TargetActions # NoActions => srvRules[id].actions = TargetActions

\* C5 witness: the rule was updated, the call for its first sibling rejected,
\* and its second sibling was left as it was
C5_Witness ==
    /\ handler = "radio"
    /\ Len(RulesToUpdate) = 3
    /\ Synced = {RulesToUpdate[1]}
    /\ Untouched = {RulesToUpdate[3]}
    /\ calls[Len(calls)].outcome = "rejected"
    /\ phase = Error
    /\ srvRules[RulesToUpdate[1]] # pre.rules[RulesToUpdate[1]]

\* ------------------------------------------------------------------ keyword batches

RECURSIVE Committed(_, _)
\* The content rules after the calls of the log that succeeded
Committed(content, log) ==
    IF log = <<>> THEN content
    ELSE Committed(IF Head(log).outcome = "ok" THEN ApplyContent(content, Head(log).call) ELSE content,
                   Tail(log))

KeywordHandlers == {"keywords", "keywordAdd", "keywordRemove"}

\* C6: in a keyword batch every call goes out after the one before it has
\* succeeded; a call that rejects is the last call of the batch (nothing that
\* was still to issue goes out, nothing is retried), and what the calls before
\* it changed stays changed.
C6_KeywordBatchStopsAtFirstFailure ==
    handler \in KeywordHandlers =>
        /\ \A i \in DOMAIN calls : i < Len(calls) => calls[i].outcome = "ok"
        /\ (calls # <<>> /\ calls[Len(calls)].outcome = "rejected") => pc = "idle" /\ todo = <<>>
        /\ \A i, j \in DOMAIN calls : calls[i].call = calls[j].call => i = j
        /\ srvContent = Committed(pre.content, calls)

\* C6 witness: two keyword rules were to be changed, the second call rejected,
\* the first call's change is in place and the second rule was never reached
C6_Witness ==
    /\ handler = "keywords"
    /\ Len(pre.content) = 2
    /\ Len(calls) = 2
    /\ calls[1].outcome = "ok"
    /\ calls[2].outcome = "rejected"
    /\ calls[1].call.rule_id = calls[2].call.rule_id
    /\ srvContent # pre.content
    /\ \E i \in DOMAIN srvContent :
         srvContent[i].rule_id # calls[1].call.rule_id /\ srvContent[i] = pre.content[i]

\* ------------------------------------------------------------------ phases

\* The phase changes the specification's state machine allows
SpecEdges ==
    {<<Loading, Ready>>, <<Ready, Persisting>>, <<Persisting, Ready>>,
     <<Ready, Error>>, <<Persisting, Error>>}

\* C7 as stated: the phase changes only along Loading -> Ready,
\* Ready -> Persisting, Persisting -> Ready, Ready -> Error and
\* Persisting -> Error.
C7_PhaseFollowsSpecEdges == [][phase' # phase => <<phase, phase'>> \in SpecEdges]_vars

\* C7 amended: the phase changes only along the edges above and
\* Loading -> Error, which the first refresh takes when it fails.
C7_PhaseFollowsEdgesWithLoadingError ==
    [][phase' # phase => <<phase, phase'>> \in SpecEdges \cup {<<Loading, Error>>}]_vars

\* C7 witness: the first refresh has failed, so the view went from Loading to
\* Error without being Ready in between
C7_Witness ==
    /\ phase = Error
    /\ handler = "mount"
    /\ ops = 0

\* C8: once the phase is Error it stays Error, whatever step follows.
C8_ErrorIsAbsorbing == [][phase = Error => phase' = Error]_vars

\* C8 witness: a handler has failed in the middle of its batch and the view is
\* in Error with nothing left running
C8_Witness ==
    /\ phase = Error
    /\ pc = "idle"
    /\ handler \notin {"mount", "none"}
    /\ ops < MaxOps

\* The handlers that change something on the service
MutatingHandlers == {"master", "email", "radio", "keywords", "keywordAdd", "keywordRemove"}

\* The calls of the running handler that were rejected
Rejections == {i \in DOMAIN calls : calls[i].outcome = "rejected"}

\* C9: when a remote call of a mutating handler rejects, the phase is Error
\* and the handler has opened the save-error dialog exactly once; no dialog is
\* opened otherwise.
C9_RejectionShowsOneDialog ==
    handler \in MutatingHandlers =>
        /\ Rejections # {} => phase = Error /\ dialogs = 1
        /\ Rejections = {} => dialogs = 0

\* C9 witness: the master toggle's call was rejected
C9_Witness ==
    /\ handler = "master"
    /\ Rejections # {}
    /\ phase = Error
    /\ dialogs = 1

\* A mutation batch is under way: a call is still to issue or outstanding, or
\* the refresh that ends the batch is
BatchInFlight == handler \in MutatingHandlers /\ pc \in {"running", "awaiting", "refreshing"}

\* C10: from the start of a mutating handler until its refresh has completed
\* or one of its calls has failed the phase is Persisting; the phase is never
\* Ready while a batch has a call outstanding or still to issue.
C10_PersistingWhileBatchInFlight ==
    /\ BatchInFlight => phase = Persisting
    /\ phase = Ready => pc = "idle" /\ todo = <<>>

\* C10 witness: the second call of a batch is outstanding, a third is still
\* to issue
C10_Witness ==
    /\ BatchInFlight
    /\ pc = "awaiting"
    /\ Len(calls) = 2
    /\ todo # <<>>
    /\ phase = Persisting

\* ------------------------------------------------------------------ sequencing

\* The remote calls that change push rules
RuleMutations == {"setPushRuleEnabled", "setPushRuleActions", "addPushRule", "deletePushRule"}

\* The calls of the log that have not settled yet
Outstanding == {i \in DOMAIN calls : calls[i].outcome = "pending"}

\* C11: at most one remote mutation call is outstanding at a time: a call is
\* outstanding only while its handler awaits it, it is then the last call
\* issued, and every call issued before it has resolved successfully.
C11_OneCallOutstanding ==
    /\ Cardinality(Outstanding) <= 1
    /\ Outstanding # {} <=> pc = "awaiting"
    /\ \A i \in Outstanding :
         /\ i = Len(calls)
         /\ \A j \in 1..(i - 1) : calls[j].outcome = "ok"

\* C11 witness: the fourth rule mutation of a batch is outstanding, the three
\* before it have resolved
C11_Witness ==
    /\ Len(calls) = 4
    /\ Outstanding = {4}
    /\ \A i \in DOMAIN calls : calls[i].call.op \in RuleMutations
    /\ \E i \in DOMAIN calls : calls[i].call.op = "setPushRuleActions"

\* ------------------------------------------------------------------ refresh after a batch

\* The rule state refreshFromServer installs from what the service holds
Fetched ==
    <<refreshRules(srvRules, srvContent).masterPushRule,
      refreshRules(srvRules, srvContent).vectorKeywordRuleInfo,
      refreshRules(srvRules, srvContent).vectorPushRules,
      <<srvPushers>>>>

\* C13: a handler whose remote calls have all succeeded goes on to fetch the
\* rules again, and the phase goes from Persisting to Ready only in the step
\* that completes that fetch: every call of the batch has resolved by then,
\* none is left to issue, and the rule state of the view becomes the one
\* rebuilt from the fetched rules.
C13_ReadyOnlyAfterRefetch ==
    /\ [][(pc = "running" /\ todo = <<>> /\ pc' # pc) => pc' = "refreshing"]_vars
    /\ [][(phase = Persisting /\ phase' = Ready) =>
            /\ pc = "refreshing"
            /\ todo = <<>>
            /\ \A i \in DOMAIN calls : calls[i].outcome = "ok"
            /\ ruleState' = Fetched]_vars

\* C13 witness: a batch has changed the keyword rules of the service, and the
\* view is ready again with the keyword rules it fetched afterwards
C13_Witness ==
    /\ phase = Ready
    /\ ops >= 1
    /\ srvContent \notin InitContent
    /\ ruleState = Fetched

\* ------------------------------------------------------------------ display state, exactly

\* The rows of the grid
Rows == UNION {Range(vectorPushRules[1][category]) : category \in VectorCategories}

\* The rows of the grid whose definition has no synced rules
UnsyncedRows ==
    {r \in Rows : /\ r.ruleId \in DefinedRuleIds
                  /\ Len(VectorPushRulesDefinitions(r.ruleId).syncedRuleIds) = 0}

\* C14: when the view is ready, the checked radio of a rule whose definition
\* has no synced rules is the rule's own state under its definition, whatever
\* the other rules of the table are.
C14_UnsyncedShowsOwnState ==
    phase = Ready =>
        \A r \in UnsyncedRows :
            displayedState(r) = ruleToVectorState(VectorPushRulesDefinitions(r.ruleId), srvRules[r.ruleId])

\* C14 witness: a rule without synced rules shows its own state On while
\* another row of the table shows Loud
C14_Witness ==
    /\ phase = Ready
    /\ \E r \in UnsyncedRows :
         /\ displayedState(r) = On
         /\ ruleToVectorState(VectorPushRulesDefinitions(r.ruleId), srvRules[r.ruleId]) = On
         /\ \E q \in Rows \ {r} : displayedState(q) = Loud

\* The states maximumVectorState reads off a row's rule and off its synced
\* siblings that the fetched table holds
GroupStates(r) ==
    {ruleToVectorState(VectorPushRulesDefinitions(r.ruleId), srvRules[id]) :
        id \in {r.ruleId} \cup ResolvableSiblings(r)}

\* The synced rule ids of a row that the fetched table does not hold
MissingSiblings(r) ==
    Range(VectorPushRulesDefinitions(r.ruleId).syncedRuleIds) \ DOMAIN srvRules

\* C15: when the view is ready, the checked radio of a rule with a synced
\* group is the state of the rule or of one of its siblings found in the
\* table, and no state of that group is louder; a synced rule id the table
\* does not hold contributes nothing: the result is the one the ids that are
\* found give on their own.
C15_DisplayedIsGroupMaximum ==
    phase = Ready =>
        \A r \in SyncedRows :
            LET definition == VectorPushRulesDefinitions(r.ruleId)
                found(id) == id \in DOMAIN srvRules
            IN /\ displayedState(r) \in GroupStates(r)
               /\ \A s \in GroupStates(r) : Rank(s) <= Rank(displayedState(r))
               /\ r.syncedVectorState =
                      maximumVectorStateFold(srvRules, definition,
                                             SelectSeq(definition.syncedRuleIds, found), r.vectorState)

\* C15 witness: a synced rule id is missing from the table, and the row shows
\* the state of a sibling that is found, louder than the rule's own and not Off
C15_Witness ==
    /\ phase = Ready
    /\ \E r \in SyncedRows :
         /\ MissingSiblings(r) # {}
         /\ ResolvableSiblings(r) # {}
         /\ r.vectorState = Off
         /\ displayedState(r) = On

\* ------------------------------------------------------------------ keyword radio

\* The keyword rules the running keyword radio change walks, and the state
\* the keyword row had when it started
KeywordRules == vectorKeywordRuleInfo[1].rules
KeywordStateBefore == vectorKeywordRuleInfo[1].vectorState

\* The calls a keyword radio change to On or Loud owes one keyword rule: the
\* actions of the state unless the rule has count actions already, and an
\* enable when the keyword row was Off
CallsOwed(rule, actions, count) ==
    (IF Len(rule.actions) # count
     THEN <<cli_setPushRuleActions(ContentSpecific, rule.rule_id, actions)>> ELSE <<>>)
    \o (IF KeywordStateBefore = Off
        THEN <<cli_setPushRuleEnabled(ContentSpecific, rule.rule_id, TRUE)>> ELSE <<>>)

\* C16: a keyword radio change to On issues, rule by rule in list order,
\* setPushRuleActions with the actions of On exactly for the rules that do
\* not have exactly one action, and setPushRuleEnabled(true) exactly when
\* the keyword row was Off before the change; nothing else is issued, and a
\* batch that reaches its refresh has issued all of it.
C16_KeywordOnCalls ==
    (handler = "keywords" /\ target.state = On) =>
        LET owed == Flatten([i \in DOMAIN KeywordRules |-> CallsOwed(KeywordRules[i], ACTION_NOTIFY, 1)])
        IN /\ IsPrefix(Issued, owed)
           /\ pc = "refreshing" => Issued = owed

\* C16 witness: the keyword row was Off with two loud rules; each got the
\* actions of On and was enabled, in list order
C16_Witness ==
    /\ handler = "keywords"
    /\ target.state = On
    /\ pc = "refreshing"
    /\ Len(KeywordRules) = 2
    /\ [i \in DOMAIN Issued |-> <<Issued[i].op, Issued[i].rule_id>>] =
          <<<<"setPushRuleActions", KeywordRules[1].rule_id>>,
            <<"setPushRuleEnabled", KeywordRules[1].rule_id>>,
            <<"setPushRuleActions", KeywordRules[2].rule_id>>,
            <<"setPushRuleEnabled", KeywordRules[2].rule_id>>>>

\* C17: a keyword radio change to Loud issues, rule by rule in list order,
\* setPushRuleActions with the actions of Loud exactly for the rules that do
\* not have exactly three actions, and setPushRuleEnabled(true) exactly when
\* the keyword row was Off before the change; nothing else is issued, and a
\* batch that reaches its refresh has issued all of it.
C17_KeywordLoudCalls ==
    (handler = "keywords" /\ target.state = Loud) =>
        LET owed == Flatten([i \in DOMAIN KeywordRules |->
                                CallsOwed(KeywordRules[i], ACTION_HIGHLIGHT_DEFAULT_SOUND, 3)])
        IN /\ IsPrefix(Issued, owed)
           /\ pc = "refreshing" => Issued = owed

\* C17 witness: the keyword row was Off with two rules of three actions each;
\* each was enabled and none had its actions set
C17_Witness ==
    /\ handler = "keywords"
    /\ target.state = Loud
    /\ pc = "refreshing"
    /\ KeywordStateBefore = Off
    /\ Len(KeywordRules) = 2
    /\ \A i \in DOMAIN KeywordRules : Len(KeywordRules[i].actions) = 3
    /\ Len(Issued) = 2
    /\ \A i \in DOMAIN Issued : Issued[i].op = "setPushRuleEnabled" /\ Issued[i].enabled

\* The keyword rule of the service with a given id
ContentRule(content, id) == LET is(r) == r.rule_id = id IN SelectSeq(content, is)

\* C18: a keyword radio change to Off issues setPushRuleEnabled(false) for
\* the keyword rules in list order and no setPushRuleActions: a batch that
\* reaches its refresh has disabled every keyword rule, and the actions the
\* service stores for the keyword rules are those of before the change.
C18_KeywordOffDisablesOnly ==
    (handler = "keywords" /\ target.state = Off) =>
        /\ IsPrefix(Issued, [i \in DOMAIN KeywordRules |->
                                cli_setPushRuleEnabled(ContentSpecific, KeywordRules[i].rule_id, FALSE)])
        /\ pc = "refreshing" =>
              /\ Len(Issued) = Len(KeywordRules)
              /\ \A i \in DOMAIN KeywordRules :
                    \A j \in DOMAIN ContentRule(srvContent, KeywordRules[i].rule_id) :
                        ~ContentRule(srvContent, KeywordRules[i].rule_id)[j].enabled
        /\ [i \in DOMAIN srvContent |-> <<srvContent[i].rule_id, srvContent[i].actions>>] =
              [i \in DOMAIN pre.content |-> <<pre.content[i].rule_id, pre.content[i].actions>>]

\* C18 witness: an enabled keyword rule has been disabled by a change to Off
\* that went through
C18_Witness ==
    /\ handler = "keywords"
    /\ target.state = Off
    /\ pc = "refreshing"
    /\ KeywordRules # <<>>
    /\ \E i \in DOMAIN pre.content : pre.content[i].enabled /\ ~srvContent[i].enabled

\* ------------------------------------------------------------------ keyword diff

\* What a list handed to setKeywords may hold: words, the empty string among
\* them, in any order and more than once
DiffWords == {AllWords[i] : i \in 1..MaxDiffWords} \cup {""}
KeywordLists == UNION {[1..n -> DiffWords] : n \in 0..MaxDiffLen}

\* The settings view as constructed and not yet mounted, for a unit that is
\* examined on its own
NotificationsConstructed ==
    /\ srvRules = CHOOSE rules \in InitRules : RuleId_Master \in DOMAIN rules
    /\ srvContent = <<>>
    /\ srvPushers = {}
    /\ phase = Loading
    /\ masterPushRule = <<>>
    /\ vectorKeywordRuleInfo = <<>>
    /\ vectorPushRules = <<>>
    /\ pushers = <<>>
    /\ pc = "constructed"
    /\ todo = <<>>
    /\ handler = "none"
    /\ target = NoTarget
    /\ pre = NoPre
    /\ calls = <<>>
    /\ dialogs = 0
    /\ ops = 0
    /\ unreadRooms = FALSE

\* setKeywords(keywords, originalRules) is entered with any two lists: the
\* new keywords and the patterns of the original rules
setKeywordsCalled ==
    /\ NotificationsConstructed
    /\ findDMUnused
    /\ sk_args \in [keywords : KeywordLists, patterns : KeywordLists]
    /\ sk_keywords = sk_args.keywords
    /\ sk_oldKeywords = <<>>
    /\ sk_diff = [added |-> <<>>, removed |-> <<>>]
    /\ sk_pc = "called"
    /\ sk_vectorState \in VectorState
    /\ sk_todo = <<>>
    /\ sk_calls = <<>>

\* setKeywords: both lists are de-duplicated and their empties removed
setKeywordsNormalise ==
    /\ sk_pc = "called"
    /\ sk_keywords' = normaliseKeywords(sk_keywords)
    /\ sk_oldKeywords' = normaliseKeywords(sk_args.patterns)
    /\ sk_pc' = "normalised"
    /\ UNCHANGED <<notificationsUnit, findDMLocals, sk_args, sk_diff, sk_vectorState, sk_todo, sk_calls>>

\* setKeywords: the diff of the old keywords and the new ones is taken
setKeywordsDiff ==
    /\ sk_pc = "normalised"
    /\ sk_diff' = arrayDiff(sk_oldKeywords, sk_keywords)
    /\ sk_pc' = "diffed"
    /\ UNCHANGED <<notificationsUnit, findDMLocals, sk_args, sk_keywords, sk_oldKeywords,
                   sk_vectorState, sk_todo, sk_calls>>

\* The ids of the keyword rules setKeywords is handed, by position
OriginalRuleIds == <<"k1", "k2", "k3", "k4">>

\* The originalRules setKeywords is handed: one rule for each pattern, in the
\* state the keyword row is in
originalRulesOf(patterns, vectorState) ==
    [i \in DOMAIN patterns |->
        Rule(OriginalRuleIds[i], ContentSpecific, vectorState # Off,
             IF vectorState = Loud THEN actionsFor(Loud) ELSE actionsFor(On), patterns[i])]

\* setKeywords: the two loops are entered with the calls they will make
setKeywordsLoops ==
    /\ sk_pc = "diffed"
    /\ sk_todo' = setKeywordsCalls(sk_args.keywords,
                                   originalRulesOf(sk_args.patterns, sk_vectorState), sk_vectorState)
    /\ sk_pc' = "running"
    /\ UNCHANGED <<notificationsUnit, findDMLocals, sk_args, sk_keywords, sk_oldKeywords, sk_diff,
                   sk_vectorState, sk_calls>>

\* setKeywords issues its next remote call and awaits it
setKeywordsIssueCall ==
    /\ sk_pc = "running"
    /\ sk_todo # <<>>
    /\ sk_calls' = Append(sk_calls, [call |-> Head(sk_todo), outcome |-> "pending"])
    /\ sk_todo' = Tail(sk_todo)
    /\ sk_pc' = awaitCall(Tail(sk_todo))
    /\ UNCHANGED <<notificationsUnit, findDMLocals, sk_args, sk_keywords, sk_oldKeywords, sk_diff,
                   sk_vectorState>>

\* The call setKeywords awaits succeeds
setKeywordsCallResolved ==
    /\ sk_pc = "awaiting"
    /\ sk_calls' = Settle(sk_calls, "ok")
    /\ sk_pc' = "running"
    /\ UNCHANGED <<notificationsUnit, findDMLocals, sk_args, sk_keywords, sk_oldKeywords, sk_diff,
                   sk_vectorState, sk_todo>>

\* The call setKeywords awaits rejects: its catch block runs
setKeywordsCallRejected ==
    /\ sk_pc = "awaiting"
    /\ sk_calls' = Settle(sk_calls, "rejected")
    /\ sk_todo' = abortBatch(sk_todo)
    /\ sk_pc' = IF abortBatch(sk_todo) = <<>> THEN "caught" ELSE "running"
    /\ UNCHANGED <<notificationsUnit, findDMLocals, sk_args, sk_keywords, sk_oldKeywords, sk_diff,
                   sk_vectorState>>

setKeywordsNext ==
    \/ setKeywordsNormalise
    \/ setKeywordsDiff
    \/ setKeywordsLoops
    \/ setKeywordsIssueCall
    \/ setKeywordsCallResolved
    \/ setKeywordsCallRejected

SetKeywordsSpec == setKeywordsCalled /\ [][setKeywordsNext]_vars

\* A sequence without repetitions
Distinct(q) == \A i, j \in DOMAIN q : q[i] = q[j] => i = j

\* C19: the diff setKeywords takes is the set difference of the two lists
\* without their duplicates and empty strings: added holds, once each, the
\* non-empty new words that are not old words, removed holds, once each, the
\* non-empty old words that are not new words; old [a,b] and new [b,c] give
\* added [c] and removed [a], old [a,a] and new [a] give nothing added and
\* nothing removed.
C19_DiffIsSetDifference ==
    sk_pc = "diffed" =>
        /\ Range(sk_diff.added) = (Range(sk_args.keywords) \ {""}) \ Range(sk_args.patterns)
        /\ Range(sk_diff.removed) = (Range(sk_args.patterns) \ {""}) \ Range(sk_args.keywords)
        /\ Distinct(sk_diff.added)
        /\ Distinct(sk_diff.removed)
        /\ (sk_args = [keywords |-> <<"b", "c">>, patterns |-> <<"a", "b">>]) =>
               sk_diff = [added |-> <<"c">>, removed |-> <<"a">>]
        /\ (sk_args = [keywords |-> <<"a">>, patterns |-> <<"a", "a">>]) =>
               sk_diff = [added |-> <<>>, removed |-> <<>>]

\* C19 witness: the diff of a new list with a duplicate and of an old list
\* with an empty string has been taken, and both sides of it hold a word
C19_Witness ==
    /\ sk_pc = "diffed"
    /\ ~Distinct(sk_args.keywords)
    /\ "" \in Range(sk_args.patterns)
    /\ sk_diff.added # <<>>
    /\ sk_diff.removed # <<>>

\* ------------------------------------------------------------------ missing master rule

\* C20: when the rules of the service hold no master push rule, a refresh
\* ends in Error: the view is never Ready, it is in Error once the refresh
\* has completed, and nothing of what was fetched is in the view's state.
C20_NoMasterRuleIsError ==
    RuleId_Master \notin DOMAIN srvRules =>
        /\ phase \in {Loading, Error}
        /\ pc = "idle" => phase = Error
        /\ ruleState = <<<<>>, <<>>, <<>>, <<>>>>

\* C20 witness: the first refresh fetched rules without a master rule; the
\* view is in Error and holds none of the keyword rules that were fetched
C20_Witness ==
    /\ RuleId_Master \notin DOMAIN srvRules
    /\ srvContent # <<>>
    /\ pc = "idle"
    /\ phase = Error
    /\ vectorKeywordRuleInfo = <<>>
    /\ vectorPushRules = <<>>

\* ------------------------------------------------------------------ empty keyword

\* The running handler is onKeywordAdd with the empty string: the local echo
\* at the end of the keyword list has an empty pattern
EmptyKeywordAdded ==
    /\ handler = "keywordAdd"
    /\ vectorKeywordRuleInfo # <<>>
    /\ vectorKeywordRuleInfo[1].rules # <<>>
    /\ vectorKeywordRuleInfo[1].rules[Len(vectorKeywordRuleInfo[1].rules)] = LocalEcho("")

\* C21: adding the empty keyword issues no remote call at all (no
\* addPushRule, no deletePushRule) and opens no dialog; the handler goes
\* straight to its refresh, and when that refresh succeeds the phase is Ready.
C21_EmptyKeywordIsFiltered ==
    /\ [](EmptyKeywordAdded =>
            /\ calls = <<>>
            /\ todo = <<>>
            /\ dialogs = 0
            /\ phase = Error => pc = "idle")
    /\ [][(EmptyKeywordAdded /\ refreshFromServerResolved) => phase' = Ready]_vars

\* C21 witness: the empty keyword was added to a list that holds a keyword
\* rule, and the handler has reached its refresh without a call
C21_Witness ==
    /\ EmptyKeywordAdded
    /\ Len(vectorKeywordRuleInfo[1].rules) >= 2
    /\ pc = "refreshing"
    /\ phase = Persisting
    /\ calls = <<>>

\* ------------------------------------------------------------------ inhibited view

\* C22 as stated: when the master rule is enabled and the phase is Ready or
\* Persisting, the master switch is all that is on screen, whatever the rooms
\* and the pushers are.
C22_InhibitedShowsMasterOnly ==
    (isInhibited /\ phase \in {Ready, Persisting}) => render = {"master"}

\* C22 amended: when the master rule is enabled and the phase is Ready or
\* Persisting, the screen holds the master switch and, exactly when some room
\* has unread notifications, the mark-all-as-read button in a section of its
\* own headed Other; no grid of a category, no radio, no keyword composer, no
\* device or e-mail switch and no notification targets, whatever the pushers
\* are.
C22_InhibitedShowsMasterAndClearButton ==
    (isInhibited /\ phase \in {Ready, Persisting}) =>
        render = IF unreadRooms THEN {"master", "floating_other", "clearNotifs"} ELSE {"master"}

\* C22 witness: the view is ready and inhibited, the account has an e-mail
\* pusher and a room with unread notifications, and the button is on screen
C22_Witness ==
    /\ isInhibited
    /\ phase = Ready
    /\ unreadRooms
    /\ pushers[1] # {}
    /\ "clearNotifs" \in render
    /\ "targets" \notin render

\* ------------------------------------------------------------------ master switch

\* The calls of the running handler, issued or still to issue
BatchCalls == Issued \o todo

\* C23: the account switch is the inverse of the master rule. When the user
\* checks the switch (it showed unchecked) the handler issues
\* setPushRuleEnabled(master, false) and nothing else; when the user unchecks
\* it (it showed checked) the handler issues setPushRuleEnabled(master, true)
\* and nothing else. Whenever the view is ready the switch shows checked
\* exactly when the master rule is not enabled on the service.
C23_MasterSwitchIsInverse ==
    /\ (handler = "master" /\ ~masterSwitchValue) =>
           BatchCalls = <<cli_setPushRuleEnabled(Override, RuleId_Master, FALSE)>>
    /\ (handler = "master" /\ masterSwitchValue) =>
           BatchCalls = <<cli_setPushRuleEnabled(Override, RuleId_Master, TRUE)>>
    /\ phase = Ready => (masterSwitchValue <=> ~srvRules[RuleId_Master].enabled)

\* C23 witness: the switch showed unchecked, the user checked it, the call
\* has disabled the master rule on the service and the refresh is under way
C23_Witness ==
    /\ handler = "master"
    /\ ~masterSwitchValue
    /\ pc = "refreshing"
    /\ Len(calls) = 1
    /\ calls[1].outcome = "ok"
    /\ pre.rules[RuleId_Master].enabled
    /\ ~srvRules[RuleId_Master].enabled

\* ------------------------------------------------------------------ controls while persisting

\* The controls whose handlers change push rules, pushers or keywords
MutatingControls == {"master", "email", "radio", "keywords"}

\* A mutating handler starts
BatchStarts == onMasterRuleChanged \/ onEmailNotificationsChanged \/ onRadioChecked
               \/ onKeywordAdd \/ onKeywordRemove

\* C24: while the phase is Persisting every control on screen that starts a
\* change of push rules, pushers or keywords (master switch, e-mail switch,
\* radios, keyword composer) is disabled, and no handler of such a control
\* starts a batch from a state in which the phase is Persisting.
C24_NoSecondBatchWhilePersisting ==
    /\ [](phase = Persisting =>
            \A control \in MutatingControls \cap render : controlDisabled(control) /\ ~Operable(control))
    /\ [][phase = Persisting => ~BatchStarts]_vars

\* C24 witness: a batch is in flight with a call outstanding and the view
\* shows all four kinds of mutating control, none of them operable
C24_Witness ==
    /\ phase = Persisting
    /\ pc = "awaiting"
    /\ MutatingControls \subseteq render
    /\ \A control \in MutatingControls : ~Operable(control)

\* ------------------------------------------------------------------ findDMForUser

\* The current user, the user whose DM is looked for, and a third account
Me == "@me:example.org"
Target == "@target:example.org"
Other == "@other:example.org"
Users == {Me, Target, Other}

\* The rooms the client and the DM map may know
RoomIds == {"!a:example.org", "!b:example.org"}

\* The last-active timestamps a room may have
Timestamps == {1, 2}

\* isJoinedOrNearlyJoined: joined or invited
isJoinedOrNearlyJoined(membership) == membership \in {"join", "invite"}

\* A room of the client: the membership of each user in its current state,
\* the functional members it declares, the third-party invites in its state,
\* whether it is a local room, and when it was last active
RoomShapes ==
    {r \in [members : [Users -> {"join", "invite", "leave"}],
            functionalMembers : SUBSET {Other},
            thirdPartyInvites : {0, 1},
            local : BOOLEAN,
            lastActiveTimestamp : Timestamps] :
        /\ r.members[Me] \in {"join", "leave"}
        /\ r.members[Other] \in {"join", "leave"}
        /\ r.functionalMembers # {} => r.members[Other] = "join"}

\* The sequences without repetition over a set of room ids
RoomIdLists == {l \in UNION {[1..n -> RoomIds] : n \in 0..Cardinality(RoomIds)} :
                   \A i, j \in DOMAIN l : i # j => l[i] # l[j]}

\* The ids that occur in a list
IdsOf(list) == {list[i] : i \in DOMAIN list}

\* r.getMyMembership()
getMyMembership(r) == r.members[Me]

\* isLocalRoom(r)
isLocalRoom(r) == r.local

\* getFunctionalMembers(r)
getFunctionalMembers(r) == r.functionalMembers

\* The members of the room that are not functional and are joined or nearly
\* joined
joinedMembers(r) ==
    {m \in Users : m \notin getFunctionalMembers(r) /\ isJoinedOrNearlyJoined(r.members[m])}

\* A filter that accepts a room of any size that holds the other member
isSuitable_AnySize(r, userId) ==
    IF getMyMembership(r) = "join"
    THEN IF isLocalRoom(r) THEN FALSE
         ELSE IF userId \in joinedMembers(r) THEN TRUE
         ELSE Cardinality(joinedMembers(r)) = 1 /\ r.thirdPartyInvites = 1
    ELSE FALSE

\* extractSuitableRoom: the filter
isSuitable(r, userId) ==
    IF getMyMembership(r) = "join"
    THEN IF isLocalRoom(r) THEN FALSE
         ELSE IF userId \in joinedMembers(r) /\ Cardinality(joinedMembers(r)) = 2 THEN TRUE
         ELSE Cardinality(joinedMembers(r)) = 1 /\ r.thirdPartyInvites = 1
    ELSE FALSE

\* One room put into a list sorted by descending last-active timestamp,
\* behind the rooms that are as recent as it is
InsertByLastActive(rooms, sorted, id) ==
    LET ahead(i) == rooms[sorted[i]].lastActiveTimestamp >= rooms[id].lastActiveTimestamp
        n == Cardinality({i \in DOMAIN sorted : ahead(i)})
    IN SubSeq(sorted, 1, n) \o <<id>> \o SubSeq(sorted, n + 1, Len(sorted))

\* A sort that puts the room that was active longest ago first
RECURSIVE SortByLastActive_Ascending(_, _)
SortByLastActive_Ascending(rooms, list) ==
    IF list = <<>> THEN <<>>
    ELSE LET sorted == SortByLastActive_Ascending(rooms, SubSeq(list, 1, Len(list) - 1))
             id == list[Len(list)]
             ahead(i) == rooms[sorted[i]].lastActiveTimestamp <= rooms[id].lastActiveTimestamp
             n == Cardinality({i \in DOMAIN sorted : ahead(i)})
         IN SubSeq(sorted, 1, n) \o <<id>> \o SubSeq(sorted, n + 1, Len(sorted))

\* extractSuitableRoom: the sort, most recently active first, rooms that are
\* equally recent in the order they were in
RECURSIVE SortByLastActive(_, _)
SortByLastActive(rooms, list) ==
    IF list = <<>> THEN <<>>
    ELSE InsertByLastActive(rooms, SortByLastActive(rooms, SubSeq(list, 1, Len(list) - 1)),
                            list[Len(list)])

\* extractSuitableRoom(rooms, userId): the first of the suitable rooms after
\* the sort, <<>> for undefined
extractSuitableRoom(rooms, list, userId) ==
    LET suitable(id) == isSuitable(rooms[id], userId)
        suitableRooms == SortByLastActive(rooms, SelectSeq(list, suitable))
    IN IF suitableRooms # <<>> THEN <<suitableRooms[1]>> ELSE <<>>

\* findDMForUser: the rooms the DM map lists for the user are tried first
findDMForUserLookup(rooms, roomIdsForUserId, allRoomIds, userId) ==
    LET known(id) == id \in DOMAIN rooms
    IN extractSuitableRoom(rooms, SelectSeq(roomIdsForUserId, known), userId)

\* findDMForUser is called for the target user: the client knows some of the
\* rooms, the DM map lists some of its rooms for the user
findDMForUserCalled ==
    /\ NotificationsConstructed
    /\ setKeywordsUnused
    /\ fd_rooms \in UNION {[known -> RoomShapes] : known \in SUBSET RoomIds}
    /\ fd_allRoomIds \in RoomIdLists
    /\ fd_roomIdsForUserId \in {l \in RoomIdLists : IdsOf(l) \subseteq IdsOf(fd_allRoomIds)}
    /\ fd_result = <<>>
    /\ fd_pc = "called"

\* findDMForUser: the rooms listed for the user are searched; a suitable one
\* is returned at once
findDMForUserListed ==
    /\ fd_pc = "called"
    /\ LET suitableRoomForUserId ==
               findDMForUserLookup(fd_rooms, fd_roomIdsForUserId, fd_allRoomIds, Target)
       IN IF suitableRoomForUserId # <<>>
          THEN fd_result' = suitableRoomForUserId /\ fd_pc' = "returned"
          ELSE fd_result' = fd_result /\ fd_pc' = "fallback"
    /\ UNCHANGED <<notificationsUnit, setKeywordsLocals, fd_rooms, fd_roomIdsForUserId, fd_allRoomIds>>

\* findDMForUser: the fallback, all the rooms of the DM map are searched
findDMForUserFallback ==
    /\ fd_pc = "fallback"
    /\ LET known(id) == id \in DOMAIN fd_rooms
       IN fd_result' = extractSuitableRoom(fd_rooms, SelectSeq(fd_allRoomIds, known), Target)
    /\ fd_pc' = "returned"
    /\ UNCHANGED <<notificationsUnit, setKeywordsLocals, fd_rooms, fd_roomIdsForUserId, fd_allRoomIds>>

findDMForUserNext ==
    \/ findDMForUserListed
    \/ findDMForUserFallback

FindDMForUserSpec == findDMForUserCalled /\ [][findDMForUserNext]_vars

\* The room findDMForUser has returned
ReturnedRoom == fd_rooms[fd_result[1]]

SuitableIn(list) == {id \in IdsOf(list) \cap DOMAIN fd_rooms : isSuitable(fd_rooms[id], Target)}

\* The room is as recently active as any room of the set
MostRecentOf(id, ids) ==
    /\ id \in ids
    /\ \A other \in ids : fd_rooms[id].lastActiveTimestamp >= fd_rooms[other].lastActiveTimestamp

\* C27: when some room the DM map lists for the target user is suitable,
\* findDMForUser returns a suitable one of those rooms that no other
\* suitable one of them exceeds in last-active timestamp; only when none of
\* them is suitable does it return such a room of all the rooms of the DM
\* map; it returns undefined exactly when no room of either set is suitable.
C27_PrefersListedMostRecent ==
    fd_pc = "returned" =>
        /\ SuitableIn(fd_roomIdsForUserId) # {} =>
               fd_result # <<>> /\ MostRecentOf(fd_result[1], SuitableIn(fd_roomIdsForUserId))
        /\ (SuitableIn(fd_roomIdsForUserId) = {} /\ SuitableIn(fd_allRoomIds) # {}) =>
               fd_result # <<>> /\ MostRecentOf(fd_result[1], SuitableIn(fd_allRoomIds))
        /\ fd_result = <<>> <=> SuitableIn(fd_roomIdsForUserId) \cup SuitableIn(fd_allRoomIds) = {}

\* C27 witness: two rooms listed for the user are suitable, the first listed
\* is the older, and the second is returned
C27_Witness ==
    /\ fd_pc = "returned"
    /\ Len(fd_roomIdsForUserId) = 2
    /\ SuitableIn(fd_roomIdsForUserId) = IdsOf(fd_roomIdsForUserId)
    /\ fd_rooms[fd_roomIdsForUserId[1]].lastActiveTimestamp
           < fd_rooms[fd_roomIdsForUserId[2]].lastActiveTimestamp
    /\ fd_result = <<fd_roomIdsForUserId[2]>>

\* ------------------------------------------------------------------ keyword added while off

\* The keyword rules as they were when the running onKeywordAdd started: all
\* but the local echo
RulesBeforeAdd ==
    SubSeq(vectorKeywordRuleInfo[1].rules, 1, Len(vectorKeywordRuleInfo[1].rules) - 1)

\* The keyword the running onKeywordAdd was given
AddedWord == vectorKeywordRuleInfo[1].rules[Len(vectorKeywordRuleInfo[1].rules)].pattern

\* The running handler adds a new, non-empty keyword while the keyword row
\* is Off
KeywordAddedWhileOff ==
    /\ handler = "keywordAdd"
    /\ vectorKeywordRuleInfo[1].vectorState = Off
    /\ AddedWord # ""
    /\ \A i \in DOMAIN RulesBeforeAdd : RulesBeforeAdd[i].pattern # AddedWord

\* The calls C28 expects for the new keyword
CallsOwedWhenOff ==
    LET flavour == IF RulesBeforeAdd # <<>> THEN contentRuleVectorStateKind(RulesBeforeAdd[1]) ELSE On
    IN <<cli_addPushRule(ContentSpecific, AddedWord, actionsFor(flavour)),
         cli_setPushRuleEnabled(ContentSpecific, AddedWord, FALSE)>>

\* C28 as stated: a keyword added while the keyword row is Off is created
\* with the actions of the first existing keyword rule (On if there is none)
\* and then disabled with setPushRuleEnabled(false): the calls issued are a
\* prefix of these two, and once the batch is through both have been issued
\* and the new rule is disabled on the service.
C28_NewKeywordDisabledWhenOff ==
    KeywordAddedWhileOff =>
        /\ IsPrefix(Issued, CallsOwedWhenOff)
        /\ pc = "refreshing" =>
              /\ Issued = CallsOwedWhenOff
              /\ \A i \in DOMAIN srvContent :
                    srvContent[i].rule_id = AddedWord => ~srvContent[i].enabled

\* ------------------------------------------------------------------ deletions before additions

\* The calls setKeywords has issued
IssuedBySetKeywords == [i \in DOMAIN sk_calls |-> sk_calls[i].call]

\* The deletions the edit owes: for each removed word, in the order of the
\* diff, one for every original rule with that pattern
DeletionsOwed ==
    LET originalRules == originalRulesOf(sk_args.patterns, sk_vectorState)
        deletesOf(word) ==
            LET hasWord(r) == r.pattern = word
                rs == SelectSeq(originalRules, hasWord)
            IN [j \in DOMAIN rs |-> cli_deletePushRule(ContentSpecific, rs[j].rule_id)]
    IN Flatten([i \in DOMAIN sk_diff.removed |-> deletesOf(sk_diff.removed[i])])

\* The deletions issued so far, and the positions of the additions
DeletionsIssued == LET isDelete(c) == c.op = "deletePushRule" IN SelectSeq(IssuedBySetKeywords, isDelete)
AdditionsIssued == {i \in DOMAIN sk_calls : sk_calls[i].call.op = "addPushRule"}

\* C29: in a keyword edit the deletions issued are, in order, those owed: one
\* for every original rule whose pattern was removed. No deletion is issued
\* after an addition; an addition is issued only when every deletion owed has
\* been issued and has succeeded; when a deletion rejects, no addition has
\* been issued and nothing is left to issue; and an edit whose calls all
\* succeed issues every deletion owed and one addition for each added word.
C29_DeletionsBeforeAdditions ==
    sk_pc \in {"running", "awaiting", "caught"} =>
        /\ IsPrefix(DeletionsIssued, DeletionsOwed)
        /\ \A i, j \in DOMAIN sk_calls :
              (i < j /\ sk_calls[i].call.op = "addPushRule") => sk_calls[j].call.op # "deletePushRule"
        /\ AdditionsIssued # {} =>
              /\ DeletionsIssued = DeletionsOwed
              /\ \A i \in DOMAIN sk_calls :
                    sk_calls[i].call.op = "deletePushRule" => sk_calls[i].outcome = "ok"
        /\ (\E i \in DOMAIN sk_calls :
               sk_calls[i].call.op = "deletePushRule" /\ sk_calls[i].outcome = "rejected") =>
              AdditionsIssued = {} /\ sk_todo = <<>> /\ sk_pc = "caught"
        /\ (sk_pc = "running" /\ sk_todo = <<>>) =>
              /\ DeletionsIssued = DeletionsOwed
              /\ [i \in 1..Cardinality(AdditionsIssued) |->
                     sk_calls[Len(DeletionsOwed) + i].call.rule_id] = sk_diff.added

\* C29 witness: an edit that removes a word two original rules have and adds
\* another word is through: two deletions, then the addition, all succeeded
C29_Witness ==
    /\ sk_pc = "running"
    /\ sk_todo = <<>>
    /\ Len(DeletionsOwed) = 2
    /\ Len(sk_diff.removed) = 1
    /\ Len(sk_diff.added) = 1
    /\ Len(sk_calls) = 3
    /\ \A i \in DOMAIN sk_calls : sk_calls[i].outcome = "ok"
    /\ sk_calls[3].call.op = "addPushRule"

\* ------------------------------------------------------------------ populated rule state

\* C30: whenever the phase is Ready or Persisting the rule state is
\* populated: masterPushRule, vectorKeywordRuleInfo and vectorPushRules are
\* defined, and vectorPushRules has a list of rows for each of the three
\* vector categories.
C30_RuleStatePopulated ==
    phase \in {Ready, Persisting} =>
        /\ masterPushRule # <<>>
        /\ vectorKeywordRuleInfo # <<>>
        /\ vectorPushRules # <<>>
        /\ DOMAIN vectorPushRules[1] = VectorCategories

\* C30 witness: after the first refresh and one batch that went through, a
\* second batch is in flight and the rule state is there
C30_Witness ==
    /\ phase = Persisting
    /\ ops = 2
    /\ pc = "awaiting"
    /\ masterPushRule # <<>>
    /\ vectorKeywordRuleInfo # <<>>
    /\ vectorPushRules # <<>>

====
